---- MODULE Spec2Model ----
(***************************************************************************)
(* Model of the MCP agent client: src/llm_client.py (AgentApp) and         *)
(* src/main.py (WeatherApp).  One session goes through setup (the server   *)
(* registry is built from the descriptors of mcp.json), the interactive    *)
(* query loop (run_query, handle_streaming_response) and teardown          *)
(* (cleanup_servers).  The Agents SDK (Runner, MCPServerSse/Stdio) is the   *)
(* environment: connect(), cleanup() and the event stream succeed or raise *)
(* nondeterministically.                                                   *)
(***************************************************************************)
EXTENDS Integers, Sequences, FiniteSets, TLC

VARIABLES
    variant,        \* which program runs: "llm_client" or "main"
    descriptors,    \* mcp_config['mcpServers'], in declaration order
    environ,        \* os.environ: the process environment
    pc,             \* position of the session
    idx,            \* position of setup's for loop (1-based)
    servers,        \* the registry: _servers (llm_client) / self.servers (main)
    conn,           \* per descriptor: state of its handle's connect()
    warnings,       \* what setup's except clause has reported
    agent,          \* WeatherAssistant.agent: "None" or "bound"
    agentBuilds,    \* number of Agent(...) constructions
    cidx,           \* position of cleanup_servers' for loop
    cleanupLog,     \* the cleanup() calls made, in call order
    cleanupReports, \* handles whose cleanup failure was reported
    teardownCalls,  \* number of cleanup_servers invocations started
    passRegistry,   \* the registry as the current teardown pass found it
    exitPath,       \* how setup / the query loop ended
    line,           \* what input() returned last in run_interactive
    query,          \* text passed to the current / last run_query
    streaming,      \* mode of the current / last run_query
    behaviour,      \* what the model does for the current run
    consumed,       \* events consumed by handle_streaming_response
    sink,           \* stdout of the handle_streaming_response call in progress
    outcome,        \* what the run_query call that just ended gave its caller
    stub,           \* the behaviour of a deterministic model stub, if one is used
    outcomeByMode   \* under a stub: the outcome seen per mode (streaming / blocking)

setupVars == <<descriptors, environ, idx, servers, conn, warnings, agent, agentBuilds>>
cleanupVars == <<cidx, cleanupLog, cleanupReports, teardownCalls, passRegistry>>
queryVars == <<line, query, streaming, behaviour, consumed, sink, outcome,
               stub, outcomeByMode>>
vars == <<variant, pc, exitPath, setupVars, cleanupVars, queryVars>>

----------------------------------------------------------------------------
(* Bounds of the model *)
MaxDescriptors == 2
MaxEvents == 2
MaxTeardowns == 2

(* Config.MAX_TURNS *)
MAX_TURNS == 10

Variants == {"llm_client", "main"}

(* A descriptor has 'url', or 'command' and 'args', or neither. *)
Transports == {"url", "stdio", "none"}

(* Environment variables a descriptor's 'env' may name, and their values.  *)
(* mcp.json is JSON: a value need not be a string.                         *)
EnvKeys == {"K1", "K2"}
NotAString == "<number>"
Unset == "<unset>"

(* server_config.get('env'): absent or empty (NoEnv), or the mapping's     *)
(* items in the order of env.items().                                      *)
NoEnv == <<>>
EnvMaps ==
    {NoEnv,
     <<[key |-> "K1", value |-> "a"]>>,
     <<[key |-> "K1", value |-> "b"], [key |-> "K2", value |-> "b"]>>,
     <<[key |-> "K1", value |-> "a"], [key |-> "K2", value |-> NotAString]>>}

Descriptors == [transport : Transports, env : EnvMaps]

(* Descriptors without an 'env' entry. *)
PlainDescriptors == {d \in Descriptors : d.env = NoEnv}

SeqsUpTo(S, n) == UNION {[1..k -> S] : k \in 0..n}

----------------------------------------------------------------------------
(* The model capability (Agents SDK Runner), seen from run_query.          *)

(* Stream events: event.type and the class of event.data. *)
Events ==
    {[type |-> "raw_response_event", data |-> "TextDelta", delta |-> "a"],
     [type |-> "raw_response_event", data |-> "TextDelta", delta |-> "b"],
     [type |-> "raw_response_event", data |-> "ContentPartDone", delta |-> ""],
     [type |-> "raw_response_event", data |-> "Other", delta |-> ""],
     [type |-> "run_item_stream_event", data |-> "Other", delta |-> ""]}

NoFail == -1
None == "None"

(* What the model does for one query: the events it emits, the turns it    *)
(* needs to conclude, the number of events after which the event source    *)
(* fails (NoFail: it does not).                                            *)
Behaviours ==
    {b \in [events : SeqsUpTo(Events, MaxEvents),
            turns : {MAX_TURNS, MAX_TURNS + 1},
            failAt : {NoFail} \cup (0..MaxEvents)] :
        /\ b.failAt <= Len(b.events)
        /\ (b.failAt # NoFail => b.turns = MAX_TURNS)}

(* No run in progress: the locals of run_query do not exist. *)
Idle == [events |-> <<>>, turns |-> MAX_TURNS, failAt |-> NoFail]

(* The answer of a run that concludes: the text the model produced. *)
RECURSIVE Text(_)
Text(es) ==
    IF es = <<>> THEN <<>>
    ELSE (IF Head(es).data = "TextDelta" THEN <<Head(es).delta>> ELSE <<>>)
         \o Text(Tail(es))

(* How a run under the turn cap max_turns ends. *)
Fault(b, max_turns) ==
    IF b.failAt # NoFail THEN "StreamError"
    ELSE IF b.turns > max_turns THEN "MaxTurnsExceeded"
    ELSE "none"

(* The events the source yields before it ends or raises. *)
Delivered(b) ==
    IF b.failAt # NoFail THEN SubSeq(b.events, 1, b.failAt) ELSE b.events

(* result.final_output: set only when the run concluded. *)
FinalOutput(b, max_turns) ==
    IF Fault(b, max_turns) = "none" THEN Text(b.events) ELSE None

(* No line has been read yet. *)
NoLine == "<no input>"

NoStub == [events |-> <<>>, turns |-> 0, failAt |-> NoFail]

NotRun == [kind |-> "none", value |-> None]
Returned(v) == [kind |-> "returned", value |-> v]
Raised(e) == [kind |-> "raised", value |-> e]

----------------------------------------------------------------------------
InitWith(D) ==
    /\ variant \in Variants
    /\ descriptors \in SeqsUpTo(D, MaxDescriptors)
    /\ environ = [k \in EnvKeys |-> Unset]
    /\ pc = "start"
    /\ idx = 1
    /\ servers = <<>>
    /\ conn = [i \in 1..Len(descriptors) |-> "new"]
    /\ warnings = <<>>
    /\ agent = "None"
    /\ agentBuilds = 0
    /\ cidx = 1
    /\ cleanupLog = <<>>
    /\ cleanupReports = <<>>
    /\ teardownCalls = 0
    /\ passRegistry = <<>>
    /\ exitPath = "none"
    /\ line = NoLine
    /\ query = ""
    /\ streaming = TRUE
    /\ behaviour = Idle
    /\ consumed = 0
    /\ sink = <<>>
    /\ outcome = NotRun
    /\ stub = NoStub
    /\ outcomeByMode = [m \in BOOLEAN |-> NotRun]

(* A configuration whose descriptors carry no 'env'. *)
Init == InitWith(PlainDescriptors)

(* A configuration whose descriptors may carry 'env'. *)
InitEnv == InitWith(Descriptors)

----------------------------------------------------------------------------
(* setup *)

(* Where setup goes once its except clause has caught and printed an       *)
(* Exception: on to the construction of the assistant.                     *)
SetupExceptionPropagates == "finally"
AfterSetupException == "assistant"

(* open(mcp.json) / json.load: an unreadable file gives no descriptors and *)
(* lands in setup's except clause.                                         *)
setup_load ==
    /\ pc = "start"
    /\ \/ /\ pc' = "loop"
          /\ UNCHANGED warnings
       \/ /\ descriptors = <<>>
          /\ warnings' = Append(warnings, [cause |-> "config", at |-> 0])
          /\ pc' = AfterSetupException
    /\ UNCHANGED <<variant, exitPath, descriptors, environ, idx, servers, conn, agent,
                   agentBuilds, cleanupVars, queryVars>>

(* The registry while connect() of handle i is awaited: the handle is not  *)
(* in it yet.                                                              *)
RegistryEarlyAppend(s, i) == Append(s, i)
RegistryAtConnectStart(s, i) == s

(* The registry once connect() of handle i has returned: append(server). *)
RegistryInsertFirst(s, i) == <<i>> \o s
RegistryAfterConnect(s, i) == Append(s, i)

(* os.environ[key] = value raises TypeError for a value that is no str. *)
EnvRaises(env) == \E k \in 1..Len(env) : env[k].value = NotAString

(* for key, value in env.items(): os.environ[key] = value, up to the first *)
(* write that raises.                                                      *)
RECURSIVE WriteEnv(_, _)
WriteEnv(e, env) ==
    IF env = <<>> \/ Head(env).value = NotAString THEN e
    ELSE WriteEnv([e EXCEPT ![Head(env).key] = Head(env).value], Tail(env))

(* The process environment when connect() of a handle with mapping env is  *)
(* awaited: the writes come before the handle is even constructed.         *)
EnvironUntouched(e, env) == e
EnvironAtConnectStart(e, env) == WriteEnv(e, env)

(* create_sse_server / create_stdio_server up to `await server.connect()` *)
create_server_begin(i) ==
    /\ ~EnvRaises(descriptors[i].env)
    /\ environ' = EnvironAtConnectStart(environ, descriptors[i].env)
    /\ conn' = [conn EXCEPT ![i] = "connecting"]
    /\ servers' = RegistryAtConnectStart(servers, i)
    /\ pc' = "connecting"
    /\ UNCHANGED <<variant, exitPath, descriptors, idx, warnings, agent,
                   agentBuilds, cleanupVars, queryVars>>

create_sse_server ==
    /\ pc = "loop"
    /\ idx <= Len(descriptors)
    /\ descriptors[idx].transport = "url"
    /\ create_server_begin(idx)

create_stdio_server ==
    /\ pc = "loop"
    /\ idx <= Len(descriptors)
    /\ descriptors[idx].transport = "stdio"
    /\ create_server_begin(idx)

(* A value of the mapping is no str: the write raises before the handle is *)
(* constructed, connect() is not attempted, and the exception is caught by *)
(* the except clause that wraps the whole loop.                            *)
create_server_env_error ==
    /\ pc = "loop"
    /\ idx <= Len(descriptors)
    /\ descriptors[idx].transport \in {"url", "stdio"}
    /\ EnvRaises(descriptors[idx].env)
    /\ environ' = WriteEnv(environ, descriptors[idx].env)
    /\ conn' = [conn EXCEPT ![idx] = "env_error"]
    /\ warnings' = Append(warnings, [cause |-> "env", at |-> idx])
    /\ pc' = AfterSetupException
    /\ UNCHANGED <<variant, exitPath, descriptors, idx, servers, agent,
                   agentBuilds, cleanupVars, queryVars>>

(* Neither 'url' nor 'command'+'args': the loop body does nothing. *)
setup_skip ==
    /\ pc = "loop"
    /\ idx <= Len(descriptors)
    /\ descriptors[idx].transport = "none"
    /\ conn' = [conn EXCEPT ![idx] = "skipped"]
    /\ idx' = idx + 1
    /\ UNCHANGED <<variant, pc, exitPath, descriptors, environ, servers, warnings, agent,
                   agentBuilds, cleanupVars, queryVars>>

(* connect() returned: the handle is registered, the loop goes on. *)
connect_ok ==
    /\ pc = "connecting"
    /\ conn' = [conn EXCEPT ![idx] = "connected"]
    /\ servers' = RegistryAfterConnect(servers, idx)
    /\ idx' = idx + 1
    /\ pc' = "loop"
    /\ UNCHANGED <<variant, exitPath, descriptors, environ, warnings, agent, agentBuilds,
                   cleanupVars, queryVars>>

(* The registry once connect() of handle i has raised: the append comes    *)
(* after the await and is not reached, the handle is dropped.              *)
RegistryKeepsFailed(s, i) == Append(s, i)
RegistryAfterConnectFailure(s, i) == s

(* The process environment once connect() of a handle with mapping env has *)
(* raised: no code undoes the writes made before connect().                *)
EnvironRolledBack(e, env) ==
    [k \in EnvKeys |->
        IF \E n \in 1..Len(env) : env[n].key = k THEN Unset ELSE e[k]]
EnvironAfterConnectFailure(e, env) == e

(* The handles the agent is bound to: Agent(mcp_servers=...) is given the  *)
(* registry list itself, not a copy.                                       *)
AgentServers == IF agent = "bound" THEN servers ELSE <<>>

(* connect() raised an Exception: it leaves create_*_server and the for    *)
(* loop and is caught by the except clause that wraps the whole loop.      *)
connect_fail ==
    /\ pc = "connecting"
    /\ conn' = [conn EXCEPT ![idx] = "failed"]
    /\ servers' = RegistryAfterConnectFailure(servers, idx)
    /\ environ' = EnvironAfterConnectFailure(environ, descriptors[idx].env)
    /\ warnings' = Append(warnings, [cause |-> "connect", at |-> idx])
    /\ pc' = AfterSetupException
    /\ UNCHANGED <<variant, exitPath, descriptors, idx, agent,
                   agentBuilds, cleanupVars, queryVars>>

(* Where main() goes when setup is left by a KeyboardInterrupt. *)
SkipFinally == "done"
AfterSetupInterrupt == "finally"

(* The user interrupts while connect() is awaited: not an Exception, so it *)
(* leaves setup and reaches main's finally.                                *)
connect_interrupt ==
    /\ pc = "connecting"
    /\ conn' = [conn EXCEPT ![idx] = "interrupted"]
    /\ exitPath' = "setup_interrupt"
    /\ pc' = AfterSetupInterrupt
    /\ UNCHANGED <<variant, descriptors, environ, idx, servers, warnings, agent,
                   agentBuilds, cleanupVars, queryVars>>

(* for loop exhausted *)
setup_loop_end ==
    /\ pc = "loop"
    /\ idx > Len(descriptors)
    /\ pc' = "assistant"
    /\ UNCHANGED <<variant, exitPath, setupVars, cleanupVars, queryVars>>

(* WeatherAssistant.initialize: binds the agent when none is bound         *)
(* (`if self.agent: return`).                                              *)
initialize_rebinding ==
    /\ agent' = "bound"
    /\ agentBuilds' = agentBuilds + 1
initialize ==
    /\ agent' = "bound"
    /\ agentBuilds' = IF agent = "None" THEN agentBuilds + 1 ELSE agentBuilds

(* WeatherAssistant(...) ; await self.assistant.initialize() *)
setup_assistant ==
    /\ pc = "assistant"
    /\ initialize
    /\ pc' = "ready"
    /\ UNCHANGED <<variant, exitPath, descriptors, environ, idx, servers, conn, warnings,
                   cleanupVars, queryVars>>

----------------------------------------------------------------------------
(* teardown: MCPServerManager.cleanup_servers *)

(* Entering cleanup_servers: the for loop starts on the registry. *)
cleanup_servers_begin ==
    /\ teardownCalls' = teardownCalls + 1
    /\ passRegistry' = servers
    /\ cidx' = 1
    /\ pc' = "cleanup"
    /\ UNCHANGED <<cleanupLog, cleanupReports>>

(* Where the for loop goes after cleanup() of the handle at position c of  *)
(* n raised: the except clause is inside the loop body, the loop goes on.  *)
AbortOnCleanupFailure(c, n) == n + 1
AfterCleanupFailure(c, n) == c + 1

(* One iteration: await server.cleanup(), which returns or raises. *)
cleanup_step ==
    /\ pc = "cleanup"
    /\ cidx <= Len(servers)
    /\ \E ok \in BOOLEAN :
          /\ cleanupLog' = Append(cleanupLog, [handle |-> servers[cidx],
                                               pass |-> teardownCalls,
                                               ok |-> ok])
          /\ IF ok
             THEN /\ cidx' = cidx + 1
                  /\ UNCHANGED cleanupReports
             ELSE /\ cleanupReports' = Append(cleanupReports, servers[cidx])
                  /\ cidx' = AfterCleanupFailure(cidx, Len(servers))
    /\ UNCHANGED <<variant, pc, exitPath, setupVars, teardownCalls, passRegistry,
                   queryVars>>

(* The registry when cleanup_servers returns: llm_client.py clears         *)
(* self._servers, main.py leaves the caller's list as it is.               *)
RegistryAfterTeardown(v, s) == IF v = "llm_client" THEN <<>> ELSE s

(* The loop is exhausted and cleanup_servers returns to `caller`. *)
cleanup_servers_end(caller) ==
    /\ pc = "cleanup"
    /\ cidx > Len(servers)
    /\ servers' = RegistryAfterTeardown(variant, servers)
    /\ pc' = caller
    /\ UNCHANGED <<variant, exitPath, descriptors, environ, idx, conn, warnings, agent,
                   agentBuilds, cleanupVars, queryVars>>

(* main(): the finally clause calls app.cleanup() *)
main_finally ==
    /\ pc = "finally"
    /\ cleanup_servers_begin
    /\ UNCHANGED <<variant, exitPath, setupVars, queryVars>>

(* main(): app.cleanup() returned, the program ends *)
main_end == cleanup_servers_end("done")

----------------------------------------------------------------------------
(* ResponseHandler.handle_streaming_response and WeatherAssistant.run_query *)

Banner == "REPLY:"
ErrorReport == "ERROR"
Newline == "\n"

(* What the handler prints for one event: print(delta, end="") for a text  *)
(* delta, print("\n", end="") when a content part is done, nothing else.    *)
RenderWithSeparator(e) ==
    IF e.type = "raw_response_event" /\ e.data = "TextDelta"
    THEN <<e.delta, Newline>>
    ELSE <<>>
Render(e) ==
    IF e.type = "raw_response_event"
    THEN IF e.data = "TextDelta" THEN <<e.delta>>
         ELSE IF e.data = "ContentPartDone" THEN <<Newline>>
         ELSE <<>>
    ELSE <<>>

RECURSIVE Project(_)
Project(es) == IF es = <<>> THEN <<>> ELSE Render(Head(es)) \o Project(Tail(es))

(* run_query up to the first await: initialize, Runner.run_streamed (which *)
(* returns at once) and the banner of handle_streaming_response.           *)
run_query_streamed(q, b) ==
    /\ initialize
    /\ query' = q
    /\ streaming' = TRUE
    /\ behaviour' = b
    /\ consumed' = 0
    /\ sink' = <<Banner>>
    /\ outcome' = NotRun
    /\ pc' = "streaming"
    /\ UNCHANGED <<variant, exitPath, descriptors, environ, idx, servers, conn, warnings,
                   cleanupVars, outcomeByMode>>

(* async for: the next event is consumed and rendered *)
stream_event ==
    /\ pc = "streaming"
    /\ consumed < Len(Delivered(behaviour))
    /\ consumed' = consumed + 1
    /\ sink' = sink \o Render(behaviour.events[consumed + 1])
    /\ UNCHANGED <<variant, pc, exitPath, setupVars, cleanupVars, line, query,
                   streaming, behaviour, outcome, stub, outcomeByMode>>

(* The event source is exhausted: the async for ends and the handler       *)
(* returns.                                                                *)
stream_end_early ==
    /\ pc = "streaming"
    /\ Fault(behaviour, MAX_TURNS) = "none"
    /\ pc' = "handled"
    /\ UNCHANGED <<variant, exitPath, setupVars, cleanupVars, queryVars>>
stream_end ==
    /\ pc = "streaming"
    /\ consumed = Len(Delivered(behaviour))
    /\ Fault(behaviour, MAX_TURNS) = "none"
    /\ pc' = "handled"
    /\ UNCHANGED <<variant, exitPath, setupVars, cleanupVars, queryVars>>

(* The handler's except clause: the message goes to stdout. *)
SilentExcept(s) == s
SinkAfterStreamError(s) == Append(s, ErrorReport)

(* stream_events() raises (source failure, or MaxTurnsExceeded once the    *)
(* run has used its turns): the handler catches it, prints it and returns. *)
stream_raise ==
    /\ pc = "streaming"
    /\ consumed = Len(Delivered(behaviour))
    /\ Fault(behaviour, MAX_TURNS) # "none"
    /\ sink' = SinkAfterStreamError(sink)
    /\ pc' = "handled"
    /\ UNCHANGED <<variant, exitPath, setupVars, cleanupVars, line, query,
                   streaming, behaviour, consumed, outcome, stub, outcomeByMode>>

(* What run_query gives its caller after handle_streaming_response has     *)
(* returned: `return result.final_output`.                                 *)
StreamedOutcome(b) == Returned(FinalOutput(b, MAX_TURNS))

(* What run_query gives its caller in blocking mode: Runner.run raises or  *)
(* its result's final_output is returned.                                  *)
BlockingOutcome(b) ==
    IF Fault(b, MAX_TURNS) = "none"
    THEN Returned(FinalOutput(b, MAX_TURNS))
    ELSE Raised(Fault(b, MAX_TURNS))

(* Under a stub, the outcome of a run in mode m is noted. *)
Record(m, o) ==
    IF stub = NoStub THEN outcomeByMode ELSE [outcomeByMode EXCEPT ![m] = o]

(* return result.final_output: the caller has the outcome, the handler's   *)
(* call and the locals of run_query are over.                              *)
run_query_return ==
    /\ pc = "handled"
    /\ outcome' = StreamedOutcome(behaviour)
    /\ outcomeByMode' = Record(TRUE, StreamedOutcome(behaviour))
    /\ behaviour' = Idle
    /\ consumed' = 0
    /\ sink' = <<>>
    /\ pc' = "ready"
    /\ UNCHANGED <<variant, exitPath, setupVars, cleanupVars, line, query,
                   streaming, stub>>

----------------------------------------------------------------------------
(* run_interactive: the value run_query returned is discarded when the    *)
(* loop reads on.                                                          *)

(* Lines the user may type, and input(...).strip() / .lower() on them. *)
Lines == {"quit", " QUIT ", "q", "exit_zh", "", "  ", "ask"}

Strip(l) ==
    CASE l = " QUIT " -> "QUIT"
      [] l = "  " -> ""
      [] OTHER -> l

KeepCase(l) == l
Lower(l) ==
    CASE l = "QUIT" -> "quit"
      [] OTHER -> l

(* The words that end the loop ("exit_zh" stands for the Chinese word). *)
QuitWords(v) ==
    IF v = "llm_client" THEN {"q", "quit", "exit_zh"} ELSE {"quit", "exit_zh"}

(* `if not user_query`: the stripped line is empty. *)
NeverBlank(user_query) == FALSE
IsBlank(user_query) == user_query = ""

(* A quit word: break *)
read_quit ==
    /\ pc = "ready"
    /\ \E l \in Lines :
          /\ Lower(Strip(l)) \in QuitWords(variant)
          /\ line' = l
    /\ exitPath' = "quit"
    /\ pc' = "finally"
    /\ outcome' = NotRun
    /\ UNCHANGED <<variant, setupVars, cleanupVars, query, streaming,
                   behaviour, consumed, sink, stub, outcomeByMode>>

(* An empty line: a hint is printed, continue *)
read_empty ==
    /\ pc = "ready"
    /\ \E l \in Lines :
          /\ Lower(Strip(l)) \notin QuitWords(variant)
          /\ IsBlank(Strip(l))
          /\ line' = l
    /\ outcome' = NotRun
    /\ UNCHANGED <<variant, pc, exitPath, setupVars, cleanupVars, query,
                   streaming, behaviour, consumed, sink, stub, outcomeByMode>>

(* Anything else: await self.assistant.run_query(user_query, streaming=True) *)
read_query ==
    /\ pc = "ready"
    /\ \E l \in Lines, b \in Behaviours :
          /\ Lower(Strip(l)) \notin QuitWords(variant)
          /\ ~IsBlank(Strip(l))
          /\ line' = l
          /\ run_query_streamed(Strip(l), b)
          /\ UNCHANGED stub

(* Where run_interactive goes on an Exception of the loop body: its try     *)
(* wraps the while loop, so the loop is left and main's finally follows.    *)
RetryLoop == "ready"
AfterLoopError == "finally"

(* run_query raises an Exception outside the stream handler (a failure of   *)
(* Runner.run_streamed or of a print): it reaches run_interactive's         *)
(* except Exception.                                                        *)
run_query_error ==
    /\ pc = "ready"
    /\ \E l \in Lines :
          /\ Lower(Strip(l)) \notin QuitWords(variant)
          /\ ~IsBlank(Strip(l))
          /\ line' = l
          /\ query' = Strip(l)
    /\ initialize
    /\ streaming' = TRUE
    /\ outcome' = Raised("Exception")
    /\ exitPath' = "error"
    /\ pc' = AfterLoopError
    /\ UNCHANGED <<variant, descriptors, environ, idx, servers, conn, warnings,
                   cleanupVars, behaviour, consumed, sink, stub, outcomeByMode>>

(* An Exception of input() itself (EOFError): except Exception *)
loop_error ==
    /\ pc = "ready"
    /\ exitPath' = "error"
    /\ pc' = AfterLoopError
    /\ outcome' = NotRun
    /\ UNCHANGED <<variant, setupVars, cleanupVars, line, query, streaming,
                   behaviour, consumed, sink, stub, outcomeByMode>>

(* Where run_interactive goes on a KeyboardInterrupt: its try wraps the     *)
(* while loop, so the loop is left and main's finally follows.             *)
ResumeLoop == "ready"
AfterLoopInterrupt == "finally"

(* KeyboardInterrupt while input() waits: except KeyboardInterrupt *)
input_interrupt ==
    /\ pc = "ready"
    /\ exitPath' = "interrupt"
    /\ pc' = AfterLoopInterrupt
    /\ outcome' = NotRun
    /\ UNCHANGED <<variant, setupVars, cleanupVars, line, query, streaming,
                   behaviour, consumed, sink, stub, outcomeByMode>>

(* KeyboardInterrupt while the stream is consumed: it is no Exception, so  *)
(* it passes the handler's except clause and run_query, and is caught by   *)
(* run_interactive.                                                        *)
stream_interrupt ==
    /\ pc = "streaming"
    /\ outcome' = Raised("KeyboardInterrupt")
    /\ behaviour' = Idle
    /\ consumed' = 0
    /\ exitPath' = "interrupt"
    /\ pc' = AfterLoopInterrupt
    /\ UNCHANGED <<variant, setupVars, cleanupVars, line, query, streaming,
                   sink, stub, outcomeByMode>>

----------------------------------------------------------------------------
(* The caller-facing surface used directly: setup(), then run_query(text,  *)
(* streaming) and cleanup().  The model stub is deterministic:             *)
(* every run of the session meets the same behaviour.                      *)

Stubs == IF stub = NoStub THEN Behaviours ELSE {stub}

api_run_query_streamed ==
    /\ pc = "ready"
    /\ \E b \in Stubs :
          /\ stub' = b
          /\ run_query_streamed("ask", b)
    /\ UNCHANGED line

(* run_query(text, streaming=False): await Runner.run(...) *)
api_run_query_blocking ==
    /\ pc = "ready"
    /\ \E b \in Stubs :
          /\ initialize
          /\ query' = "ask"
          /\ streaming' = FALSE
          /\ stub' = b
          /\ behaviour' = Idle
          /\ consumed' = 0
          /\ sink' = <<>>
          /\ outcome' = BlockingOutcome(b)
          /\ outcomeByMode' = [outcomeByMode EXCEPT ![FALSE] = BlockingOutcome(b)]
    /\ UNCHANGED <<variant, pc, exitPath, descriptors, environ, idx, servers, conn,
                   warnings, cleanupVars, line>>

(* app.cleanup() *)
api_cleanup ==
    /\ pc = "ready"
    /\ teardownCalls < MaxTeardowns
    /\ cleanup_servers_begin
    /\ UNCHANGED <<variant, exitPath, setupVars, queryVars>>

api_cleanup_return == cleanup_servers_end("ready")

----------------------------------------------------------------------------
Setup ==
    \/ setup_load
    \/ create_sse_server
    \/ create_stdio_server
    \/ setup_skip
    \/ connect_ok
    \/ connect_fail
    \/ setup_loop_end
    \/ setup_assistant

Stream ==
    \/ stream_event
    \/ stream_end
    \/ stream_raise
    \/ run_query_return

(* main(): setup, run_interactive, finally cleanup *)
Next ==
    \/ Setup
    \/ connect_interrupt
    \/ read_quit
    \/ read_empty
    \/ read_query
    \/ run_query_error
    \/ input_interrupt
    \/ loop_error
    \/ Stream
    \/ stream_interrupt
    \/ main_finally
    \/ cleanup_step
    \/ main_end

Spec == Init /\ [][Next]_vars

(* A client that runs queries in either mode against a deterministic      *)
(* model stub; run_query does not read the registry, one descriptor is     *)
(* enough.                                                                 *)
InitQuery ==
    /\ Init
    /\ Len(descriptors) <= 1

NextQuery ==
    \/ Setup
    \/ api_run_query_streamed
    \/ api_run_query_blocking
    \/ Stream

SpecQuery == InitQuery /\ [][NextQuery]_vars

(* A client that calls cleanup() up to MaxTeardowns times after setup *)
NextTeardown ==
    \/ Setup
    \/ api_cleanup
    \/ cleanup_step
    \/ api_cleanup_return

SpecTeardown == Init /\ [][NextTeardown]_vars

(* A session over a configuration with 'env' entries, in which the user    *)
(* asks nothing: setup, then the loop is left at once, then teardown.      *)
NextEnv ==
    \/ Setup
    \/ create_server_env_error
    \/ connect_interrupt
    \/ read_quit
    \/ input_interrupt
    \/ main_finally
    \/ cleanup_step
    \/ main_end

SpecEnv == InitEnv /\ [][NextEnv]_vars

----------------------------------------------------------------------------
(* Properties *)

Indices == 1..Len(descriptors)

(* setup has returned to main (it was not left by an interrupt). *)
SetupReturned == pc \notin {"start", "loop", "connecting", "assistant"}
                 /\ exitPath # "setup_interrupt"

Range(s) == {s[k] : k \in 1..Len(s)}

(* The warnings that report a failed connection. *)
ConnectWarnings == SelectSeq(warnings, LAMBDA w : w.cause = "connect")

(* The handles cleanup() was called on during teardown pass p, in order. *)
RECURSIVE HandlesOf(_, _)
HandlesOf(log, p) ==
    IF log = <<>> THEN <<>>
    ELSE (IF Head(log).pass = p THEN <<Head(log).handle>> ELSE <<>>)
         \o HandlesOf(Tail(log), p)

(* The handles whose cleanup() raised, in call order. *)
RECURSIVE FailedOf(_)
FailedOf(log) ==
    IF log = <<>> THEN <<>>
    ELSE (IF Head(log).ok THEN <<>> ELSE <<Head(log).handle>>)
         \o FailedOf(Tail(log))

CleanupCalls(i) == Cardinality({k \in 1..Len(cleanupLog) : cleanupLog[k].handle = i})

(* C1: once setup has returned, every descriptor whose connect() failed was *)
(* reported and left out of the registry, and connect() was attempted for   *)
(* every connectable descriptor declared after it.                          *)
C1_FailureDoesNotAbort ==
    SetupReturned =>
        \A i \in Indices :
            conn[i] = "failed" =>
                /\ \E k \in 1..Len(warnings) : warnings[k].at = i
                /\ i \notin Range(servers)
                /\ \A j \in Indices :
                      (j > i /\ descriptors[j].transport # "none")
                          => conn[j] \in {"connected", "failed"}

(* C2: at every moment every handle in the registry is one whose connect()  *)
(* has completed successfully.                                              *)
C2_RegistryOnlyConnected ==
    \A k \in 1..Len(servers) : conn[servers[k]] = "connected"

(* C2 witness: one handle is registered while connect() of a later one is   *)
(* still awaited.                                                           *)
C2_Witness ==
    /\ pc = "connecting"
    /\ Len(servers) >= 1
    /\ conn[idx] = "connecting"

(* C3: when setup has returned, the handles in the registry plus the        *)
(* reported connection warnings are as many as the input descriptors.       *)
C3_HandlesPlusWarnings ==
    (pc = "ready" /\ teardownCalls = 0) =>
        Len(servers) + Len(ConnectWarnings) = Len(descriptors)

(* C4: however setup or the query loop ended, the session goes to teardown; *)
(* at the end of main() exactly one teardown pass has run and every handle  *)
(* that connected has received exactly one cleanup() call, and no other     *)
(* handle has received one.                                                 *)
C4_ReleasedOnEveryExit ==
    /\ exitPath # "none" => pc \in {"finally", "cleanup", "done"}
    /\ pc = "done" =>
          /\ exitPath # "none"
          /\ teardownCalls = 1
          /\ \A i \in Indices :
                CleanupCalls(i) = IF conn[i] = "connected" THEN 1 ELSE 0

(* C4 witness: setup was interrupted after one handle had connected, and    *)
(* the session ended with that handle cleaned up.                           *)
C4_Witness ==
    /\ pc = "done"
    /\ exitPath = "setup_interrupt"
    /\ Len(cleanupLog) = 1
    /\ conn[cleanupLog[1].handle] = "connected"

(* C5: a teardown pass calls cleanup() on the handles of the registry in    *)
(* registration order, one after the other; a cleanup() that raises is      *)
(* reported and the pass goes on, so that when the pass has returned every  *)
(* handle of the registry has had its call.                                 *)
C5_TeardownVisitsAll ==
    pc \in {"cleanup", "done"} =>
        /\ cidx <= Len(passRegistry) + 1
        /\ HandlesOf(cleanupLog, teardownCalls) = SubSeq(passRegistry, 1, cidx - 1)
        /\ FailedOf(cleanupLog) = cleanupReports
        /\ pc = "done" => HandlesOf(cleanupLog, teardownCalls) = passRegistry

(* C5 witness: cleanup() of the first of two handles raised and the second  *)
(* handle was still cleaned up.                                             *)
C5_Witness ==
    /\ pc = "done"
    /\ Len(passRegistry) = 2
    /\ cleanupReports = <<passRegistry[1]>>
    /\ Len(cleanupLog) = 2

(* C6: a second teardown on the same registry calls cleanup() on no handle  *)
(* and reports no failure: every cleanup() call belongs to the first pass.  *)
C6_SecondTeardownIdle ==
    \A k \in 1..Len(cleanupLog) : cleanupLog[k].pass = 1

(* C7: a run that ends without the model concluding within MAX_TURNS gives  *)
(* its caller the MaxTurnsExceeded error, in either mode.                   *)
C7_TurnLimitPropagates ==
    (pc = "ready" /\ outcome # NotRun /\ stub.turns > MAX_TURNS) =>
        outcome = Raised("MaxTurnsExceeded")

(* C8: a streaming run whose event source failed after at least one event  *)
(* does not return normally: its caller gets the failure.                   *)
C8_StreamFailurePropagates ==
    (pc = "ready" /\ outcome # NotRun /\ streaming /\ stub.failAt >= 1) =>
        outcome.kind = "raised"

(* C9: when the event source raises after k events, the handler has         *)
(* consumed exactly those k events when it returns, has reported the error, *)
(* and its output is the banner, what the first k events render to, and the *)
(* error report: nothing retracted, nothing from later events.              *)
C9_PartialOutputKept ==
    behaviour.failAt # NoFail =>
        /\ consumed <= behaviour.failAt
        /\ pc = "handled" =>
              /\ consumed = behaviour.failAt
              /\ sink = <<Banner>>
                        \o Project(SubSeq(behaviour.events, 1, behaviour.failAt))
                        \o <<ErrorReport>>

(* C9 witness: the source raised after one text delta, with a second delta  *)
(* never delivered.                                                        *)
C9_Witness ==
    /\ pc = "handled"
    /\ behaviour.failAt = 1
    /\ Len(behaviour.events) = 2
    /\ behaviour.events[1].data = "TextDelta"
    /\ behaviour.events[2].data = "TextDelta"

(* C10: against the same model stub, a streaming run and a blocking run     *)
(* give their callers the same outcome.                                     *)
C10_ModeEquivalence ==
    (outcomeByMode[TRUE] # NotRun /\ outcomeByMode[FALSE] # NotRun) =>
        outcomeByMode[TRUE] = outcomeByMode[FALSE]

(* C11: while the handler consumes the stream, after every prefix of the    *)
(* event sequence its output is the banner followed by the in-order         *)
(* projection of that prefix: a text delta contributes its text unchanged,  *)
(* a finished content part exactly one newline, any other event nothing;    *)
(* no write waits for a later event.                                        *)
C11_Contribution(e) ==
    CASE e.data = "TextDelta" -> <<e.delta>>
      [] e.data = "ContentPartDone" -> <<"\n">>
      [] OTHER -> <<>>

RECURSIVE C11_Expected(_)
C11_Expected(k) ==
    IF k = 0 THEN <<>>
    ELSE C11_Expected(k - 1) \o C11_Contribution(behaviour.events[k])

C11_PrefixProjection ==
    pc = "streaming" =>
        /\ consumed <= Len(behaviour.events)
        /\ sink = <<Banner>> \o C11_Expected(consumed)

(* C11 witness: a text delta, then a finished content part, both consumed   *)
(* and the stream still open.                                               *)
C11_Witness ==
    /\ pc = "streaming"
    /\ consumed = 2
    /\ behaviour.events[1].data = "TextDelta"
    /\ behaviour.events[2].data = "ContentPartDone"
    /\ sink = <<Banner, behaviour.events[1].delta, "\n">>

(* C12: once setup has returned (no connect() having failed), every         *)
(* descriptor with neither 'url' nor 'command'+'args' was skipped with a    *)
(* reported warning and has no handle in the registry, and every other      *)
(* valid descriptor of the batch, before and after it, has its handle.      *)
C12_InvalidSkippedWithWarning ==
    (SetupReturned /\ teardownCalls = 0
     /\ \A j \in Indices : conn[j] # "failed") =>
        \A i \in Indices :
            descriptors[i].transport = "none" =>
                /\ \E k \in 1..Len(warnings) : warnings[k].at = i
                /\ i \notin Range(servers)
                /\ \A j \in Indices :
                      descriptors[j].transport # "none" => j \in Range(servers)

(* C13: over any sequence of initialize and run_query calls the agent is    *)
(* constructed exactly once: it is bound from the first initialize on, no   *)
(* later call constructs another, and every query runs against that one    *)
(* agent.                                                                   *)
C13_AgentBoundOnce ==
    /\ agentBuilds <= 1
    /\ (agent = "bound") <=> (agentBuilds = 1)
    /\ (pc \in {"streaming", "handled"}
        \/ \E mode \in BOOLEAN : outcomeByMode[mode] # NotRun)
           => (agent = "bound" /\ agentBuilds = 1)

(* C13 witness: after setup's initialize, a streaming and a blocking         *)
(* run_query have both called initialize again and finished.                *)
C13_Witness ==
    /\ pc = "ready"
    /\ outcomeByMode[TRUE] # NotRun
    /\ outcomeByMode[FALSE] # NotRun
    /\ agentBuilds = 1

(* C14: in streaming mode run_query gives its caller a value only after the *)
(* handler has consumed every event the run's source yields: while events   *)
(* are being consumed nothing has been returned, and when the handler has   *)
(* returned none is left (for a run that concludes, the whole sequence).    *)
C14_ReturnAfterDrain ==
    /\ pc = "streaming" => outcome = NotRun
    /\ pc = "handled" =>
          /\ outcome = NotRun
          /\ consumed = Len(Delivered(behaviour))
          /\ Fault(behaviour, MAX_TURNS) = "none"
                => consumed = Len(behaviour.events)

(* C14 witness: a run of two events that concludes; both were consumed and  *)
(* run_query is about to return.                                            *)
C14_Witness ==
    /\ pc = "handled"
    /\ Fault(behaviour, MAX_TURNS) = "none"
    /\ Len(behaviour.events) = 2
    /\ consumed = 2

(* C15: connections are attempted in declaration order, the registry holds  *)
(* the connected handles in declaration order, and every teardown pass      *)
(* calls cleanup() on them in that same order.                              *)
C15_Ascending(s) == \A a, b \in 1..Len(s) : a < b => s[a] < s[b]

C15_DeclarationOrder ==
    /\ \A i, j \in Indices : (i < j /\ conn[j] # "new") => conn[i] # "new"
    /\ C15_Ascending(servers)
    /\ C15_Ascending(passRegistry)
    /\ \A p \in 1..teardownCalls :
          /\ C15_Ascending(HandlesOf(cleanupLog, p))
          /\ pc = "done" => HandlesOf(cleanupLog, p) = passRegistry

(* C15 witness: descriptors A then B both connected; the session ended with *)
(* the registry [A, B] and two cleanup() calls, A's first.                  *)
C15_Witness ==
    /\ pc = "done"
    /\ passRegistry = <<1, 2>>
    /\ Len(cleanupLog) = 2
    /\ cleanupLog[1].handle = 1
    /\ cleanupLog[2].handle = 2

(* C16: once a streaming run has been cancelled by a user interrupt, no     *)
(* step writes to that run's output any more, and the session is in         *)
(* teardown: it ends only with the teardown pass made.                      *)
C16_Cancelled == outcome = Raised("KeyboardInterrupt")

C16_InterruptStopsOutput ==
    [][/\ C16_Cancelled => (sink' = sink /\ C16_Cancelled')
       /\ C16_Cancelled' =>
             /\ pc' \in {"finally", "cleanup", "done"}
             /\ pc' = "done" =>
                   (teardownCalls' = 1
                    /\ HandlesOf(cleanupLog', 1) = passRegistry')]_vars

(* C16 witness: a run was interrupted after the banner and one piece of     *)
(* text had been written; the session ended after cleanup() of a connected  *)
(* handle, the output still what it was.                                    *)
C16_Witness ==
    /\ C16_Cancelled
    /\ pc = "done"
    /\ Len(sink) = 2
    /\ teardownCalls = 1
    /\ Len(cleanupLog) >= 1

(* C17: run_interactive never passes an empty query on: whenever run_query  *)
(* is running, the line read last is not empty after trimming and the query *)
(* is that trimmed line; a line that is empty after trimming leaves the     *)
(* loop waiting for the next input (which may end it), no query started.    *)
C17_NoEmptyQuery ==
    /\ pc \in {"streaming", "handled"} =>
          (Strip(line) # "" /\ query = Strip(line) /\ query # "")
    /\ (line # NoLine /\ Strip(line) = "") =>
          /\ pc \in {"ready", "finally", "cleanup", "done"}
          /\ pc = "ready" => (behaviour = Idle /\ outcome = NotRun)
          /\ exitPath \in {"none", "interrupt", "error"}
          /\ outcome = NotRun

(* C17 witness: a line of blanks was read; the loop waits for the next      *)
(* input and no run is in progress.                                         *)
C17_Witness ==
    /\ line = "  "
    /\ pc = "ready"
    /\ exitPath = "none"
    /\ behaviour = Idle
    /\ outcome = NotRun

(* C18: an empty registry is no error: when setup is over (not by an        *)
(* interrupt) with no handle registered, because no descriptor connected    *)
(* or the configuration could not be loaded, the orchestrator exists with   *)
(* its agent bound, and the session is in the query loop or past it.        *)
C18_EmptyRegistryIsFine ==
    (SetupReturned /\ teardownCalls = 0 /\ servers = <<>>) =>
        /\ agent = "bound"
        /\ agentBuilds = 1
        /\ pc \in {"ready", "streaming", "handled", "finally"}
        /\ pc = "finally" => exitPath \in {"quit", "interrupt", "error"}

(* C18 witness: with an empty registry and the failure reported, a query    *)
(* has been run and its stream consumed to the end.                         *)
C18_Witness ==
    /\ servers = <<>>
    /\ Len(warnings) = 1
    /\ pc = "handled"
    /\ Fault(behaviour, MAX_TURNS) = "none"
    /\ consumed >= 1

(* C19: whenever connect() of a descriptor is being attempted, over either  *)
(* transport, every variable of that descriptor's environment mapping is in *)
(* the process environment with the mapping's value.                        *)
C19_EnvBeforeConnect ==
    pc = "connecting" =>
        \A k \in 1..Len(descriptors[idx].env) :
            environ[descriptors[idx].env[k].key] = descriptors[idx].env[k].value

(* C19 witness: a url descriptor with one variable has connected, and       *)
(* connect() of a command descriptor with two variables is awaited, both of *)
(* its variables written (one over the first descriptor's value).           *)
C19_Witness ==
    /\ pc = "connecting"
    /\ idx = 2
    /\ descriptors[1].transport = "url"
    /\ Len(descriptors[1].env) = 1
    /\ conn[1] = "connected"
    /\ descriptors[2].transport = "stdio"
    /\ Len(descriptors[2].env) = 2
    /\ environ["K1"] = "b"
    /\ environ["K2"] = "b"

(* C20: once an exception has left run_query in the interactive loop, the   *)
(* loop is over: no later step reads a line or starts a query, and the      *)
(* session is in teardown, ending only with the teardown pass made.         *)
C20_Propagated == outcome.kind = "raised"

C20_ExceptionEndsLoop ==
    [][/\ C20_Propagated =>
             UNCHANGED <<line, query, streaming, behaviour, consumed, outcome,
                         exitPath>>
       /\ C20_Propagated' =>
             /\ exitPath' \in {"interrupt", "error"}
             /\ pc' \in {"finally", "cleanup", "done"}
             /\ pc' = "done" => teardownCalls' = 1]_vars

(* C20 witness: run_query raised an Exception for the query read last; the  *)
(* session ended after one teardown pass without another line read.         *)
C20_Witness ==
    /\ outcome = Raised("Exception")
    /\ query = Strip(line)
    /\ exitPath = "error"
    /\ pc = "done"
    /\ teardownCalls = 1

(* C21: cleanup() is called only on handles that are in the registry of the *)
(* pass; a handle whose connect() failed is never in the registry, never    *)
(* among the handles the agent is bound to, and never receives cleanup().   *)
C21_CleanupOnlyRegistered ==
    /\ \A k \in 1..Len(cleanupLog) :
          /\ conn[cleanupLog[k].handle] = "connected"
          /\ cleanupLog[k].pass = teardownCalls
                => cleanupLog[k].handle \in Range(passRegistry)
    /\ \A i \in Indices :
          conn[i] = "failed" =>
              /\ i \notin Range(servers)
              /\ i \notin Range(passRegistry)
              /\ i \notin Range(AgentServers)
              /\ CleanupCalls(i) = 0

(* C21 witness: the first handle connected, connect() of the second failed; *)
(* the session ended with the agent bound and cleanup() called on the first *)
(* handle alone.                                                            *)
C21_Witness ==
    /\ pc = "done"
    /\ Len(descriptors) = 2
    /\ conn[1] = "connected"
    /\ conn[2] = "failed"
    /\ agent = "bound"
    /\ Len(cleanupLog) = 1
    /\ cleanupLog[1].handle = 1

(* C22: the environment variables written for a descriptor are not rolled   *)
(* back when its connect() fails: from the failure on, through every later  *)
(* connection and through teardown to the end of the session, the process   *)
(* environment holds every variable of the descriptor with its value.       *)
C22_EnvKeptAfterFailure ==
    \A i \in Indices :
        conn[i] = "failed" =>
            \A k \in 1..Len(descriptors[i].env) :
                environ[descriptors[i].env[k].key] = descriptors[i].env[k].value

(* C22 witness: connect() of the second descriptor failed after its two     *)
(* variables had been written; the first handle has had its cleanup() and   *)
(* the session is over, both variables still set.                           *)
C22_Witness ==
    /\ pc = "done"
    /\ Len(descriptors) = 2
    /\ conn[1] = "connected"
    /\ conn[2] = "failed"
    /\ Len(descriptors[2].env) = 2
    /\ Len(cleanupLog) = 1
    /\ environ["K1"] = "b"
    /\ environ["K2"] = "b"

(* C23: a quit command ("quit" or the Chinese word, in any case and with    *)
(* surrounding blanks; also "q" in llm_client.py) ends the interactive      *)
(* loop: run_query is not invoked for that line, the session goes to        *)
(* teardown and ends only with the teardown pass made; and the loop is      *)
(* ended as by a quit command for no other line.                            *)
C23_QuitCommand ==
    \/ line \in {"quit", " QUIT ", "exit_zh"}
    \/ (variant = "llm_client" /\ line = "q")

C23_QuitEndsLoop ==
    /\ C23_QuitCommand <=> exitPath = "quit"
    /\ C23_QuitCommand =>
          /\ pc \in {"finally", "cleanup", "done"}
          /\ query \notin {line, Strip(line)}
          /\ behaviour = Idle
          /\ outcome = NotRun
          /\ pc = "done" =>
                (teardownCalls = 1 /\ HandlesOf(cleanupLog, 1) = passRegistry)

(* C23 witness: after a query had been answered the user typed " QUIT ";    *)
(* the session ended with the teardown pass over a connected handle, the    *)
(* last query still the earlier one.                                        *)
C23_Witness ==
    /\ line = " QUIT "
    /\ query = "ask"
    /\ exitPath = "quit"
    /\ pc = "done"
    /\ teardownCalls = 1
    /\ Len(cleanupLog) >= 1

====
